---- MODULE Spec2Model ----
(***************************************************************************)
(* A model of vaultier's SecretClient (src/lib.rs), its Kubernetes login   *)
(* helper (src/auth.rs), its error conversions (src/error.rs) and its raw  *)
(* metadata POST (src/metadata.rs).                                        *)
(*                                                                         *)
(* One caller drives one invocation at a time.  An invocation is the       *)
(* sequence of steps between two .await points of the Rust code: the step  *)
(* that issues a backing call and suspends, and the step in which the      *)
(* backing service answers and the code after the .await runs up to the    *)
(* next .await or to the return.  The key-value store, the auth backend    *)
(* and the file system are the environment: the store keeps versioned      *)
(* values with check-and-set, may answer any call with a fault status, and *)
(* is written concurrently by another writer.                              *)
(*                                                                         *)
(* Strings the code formats are sequences of one-character strings, so     *)
(* format!("{}/{}", a, b) is the concatenation of a, "/" and b.            *)
(***************************************************************************)
EXTENDS Integers, Sequences, FiniteSets, TLC

VARIABLES
    client,     \* the SecretClient the caller holds (lib.rs:67-71), or none
    store,      \* the KV2 engine: per <<mount, path>> the sequence of versions
    pc,         \* where the current invocation is suspended
    op,         \* the current invocation: operation name and arguments
    call,       \* the backing call in flight, if any
    metadata,   \* local `metadata` of read_secrets_with_metadata (lib.rs:174)
    result,     \* what the invocation returned to the caller
    sent,       \* history: backing calls issued by the current invocation
    got,        \* history: answers received by the current invocation
    lastSet     \* history: per sub-path argument, the value of the last
                \* successful set_secrets/set_secrets_in not yet overwritten

vars == <<client, store, pc, op, call, metadata, result, sent, got, lastSet>>

----------------------------------------------------------------------------
(* Bounds and input domains *)

\* The store accepts at most this many versions in total.
MaxWrites == 3

Values == {1, 2}

\* Option<T>
Some(x) == [some |-> TRUE, v |-> x]
NonePath == [some |-> FALSE, v |-> <<>>]
NoneNum == [some |-> FALSE, v |-> 0]
NoneStr == [some |-> FALSE, v |-> ""]

Mount == <<"k", "v">>
BasePath == <<"a">>
SubPaths == {<<"b">>}
Mounts == {Mount}

Addresses == {"https://vault", "not a url"}
AddressValid(address) == address = "https://vault"

\* The status codes with which the store may fail any call.
FaultCodes == {404, 500}

CasVersions == {0, 1}

SessionTokens == {"s1", "s2"}

\* Response bodies of the metadata endpoint.
JsonBody == <<"{", "}">>
GarbageBody == <<"<">>
EmptyBody == <<>>
Bodies == {JsonBody, GarbageBody, EmptyBody}

PostStatuses == {200, 204, 404, 500}

----------------------------------------------------------------------------
(* Constants of the source *)

VAULT_TOKEN_PATH == "/vault/secrets/token"
SERVICE_TOKEN_PATH == "/var/run/secrets/kubernetes.io/serviceaccount/token"

----------------------------------------------------------------------------
(* Errors: VaultierError and the conversions into it *)

NoErr == [variant |-> "none", code |-> 0, msg |-> <<>>]

\* impl From<vaultrs::error::ClientError>: wraps the client error unchanged.
FromClientError(code) == [variant |-> "VaultClient", code |-> code, msg |-> <<>>]

\* impl From<VaultClientSettingsBuilderError>
FromSettingsBuilderError == [variant |-> "VaultClientSettings", code |-> 0, msg |-> <<>>]

\* impl From<io::Error>
FromIoError == [variant |-> "IO", code |-> 0, msg |-> <<>>]

\* VaultierError::PathNotFound(format!("{mount}/data/{path}"))
PathNotFound(mount, path) ==
    [variant |-> "PathNotFound", code |-> 0,
     msg |-> mount \o <<"/", "d", "a", "t", "a", "/">> \o path]

\* VaultierError::Api { status, message }
Api(status, message) == [variant |-> "Api", code |-> status, msg |-> message]

\* The conversions the `?` of metadata.rs needs (reqwest::Error, serde_json::Error).
FromReqwestError == [variant |-> "Reqwest", code |-> 0, msg |-> <<>>]
FromJsonError == [variant |-> "Json", code |-> 0, msg |-> <<>>]

\* Result<T>: Ok carries data and/or a version and/or a token.
Ok(data, version) == [ok |-> TRUE, data |-> data, version |-> version, err |-> NoErr]
Err(e) == [ok |-> FALSE, data |-> 0, version |-> 0, err |-> e]
NoResult == [ok |-> FALSE, data |-> 0, version |-> 0, err |-> NoErr]

----------------------------------------------------------------------------
(* Backing calls and answers *)

NoCall ==
    [kind |-> "none", mount |-> <<>>, path |-> <<>>, version |-> NoneNum,
     data |-> 0, cred |-> "", file |-> ""]

KvCall(kind, mount, path, version, data) ==
    [kind |-> kind, mount |-> mount, path |-> path, version |-> version,
     data |-> data, cred |-> client.token, file |-> ""]

\* std::fs::File::open + read_to_string on `path`
FileCall(path) ==
    [kind |-> "read_file", mount |-> <<>>, path |-> <<>>, version |-> NoneNum,
     data |-> 0, cred |-> "", file |-> path]

\* VaultClientSettingsBuilder::build + VaultClient::new for `address`
BuildCall(address, token) ==
    [kind |-> "build_client", mount |-> <<>>, path |-> <<>>, version |-> NoneNum,
     data |-> 0, cred |-> token, file |-> address]

\* An answer: status 200 is success; status 0 with ok = FALSE is a failure
\* below HTTP (file system, transport, builder).
Answer(ok, code, data, version, token, body) ==
    [ok |-> ok, code |-> code, data |-> data, version |-> version,
     token |-> token, body |-> body, body_ok |-> TRUE]
Success(data, version) == Answer(TRUE, 200, data, version, "", <<>>)
Failure(code) == Answer(FALSE, code, 0, 0, "", <<>>)

NoOp == [name |-> "none", path |-> NonePath, data |-> 0, version |-> NoneNum,
         token |-> NoneStr, address |-> "", env |-> "", file |-> ""]

NoClient == [built |-> FALSE, token |-> "", mount |-> <<>>, base_path |-> <<>>]

NoMetadata == [current_version |-> 0]

----------------------------------------------------------------------------
(* The environment: file system, process environment, KV2 store *)

\* A mounted file is there and readable, is missing (File::open fails), or
\* cannot be read as UTF-8 (read_to_string fails).
FileStates == {"ok", "missing", "unreadable"}
FileContent(path) == IF path = VAULT_TOKEN_PATH THEN "tf" ELSE "jwt_file"

\* The K8S_JWT variable is absent, holds valid Unicode, or holds bytes that
\* are not valid Unicode.
EnvStates == {"absent", "valid", "not_unicode"}
EnvContent == "jwt_env"

ExplicitTokens == {"t1"}

Join(base_path, path) == base_path \o <<"/">> \o path

StorePaths == {BasePath} \cup SubPaths \cup {Join(BasePath, p) : p \in SubPaths}
StoreKeys == Mounts \X StorePaths

Versions(st, mount, path) ==
    IF <<mount, path>> \in DOMAIN st THEN st[<<mount, path>>] ELSE <<>>

RECURSIVE TotalVersions(_, _)
TotalVersions(st, keys) ==
    IF keys = {} THEN 0
    ELSE LET k == CHOOSE x \in keys : TRUE
         IN Len(st[k]) + TotalVersions(st, keys \ {k})

IsWrite(c) == c.kind \in {"set", "set_with_options"}

\* What the KV2 engine answers to call c when it does not fail with a fault
\* status: 404 for a path or version it does not hold, 400 for a check-and-set
\* mismatch, the new version for a write.
KvAnswer(st, c) ==
    LET vs == Versions(st, c.mount, c.path) IN
    CASE c.kind = "read" ->
            IF vs = <<>> THEN Failure(404) ELSE Success(vs[Len(vs)].data, Len(vs))
      [] c.kind = "read_version" ->
            IF c.version.v \in 1..Len(vs)
            THEN Success(vs[c.version.v].data, c.version.v)
            ELSE Failure(404)
      [] c.kind = "read_metadata" ->
            IF vs = <<>> THEN Failure(404) ELSE Success(0, Len(vs))
      [] c.kind = "set" ->
            IF <<c.mount, c.path>> \in DOMAIN st
            THEN Success(0, Len(vs) + 1) ELSE Failure(404)
      [] c.kind = "set_with_options" ->
            IF <<c.mount, c.path>> \notin DOMAIN st THEN Failure(404)
            ELSE IF c.version.v = Len(vs) THEN Success(0, Len(vs) + 1)
            ELSE Failure(400)
      [] OTHER -> Failure(500)

StoreAnswer(st, c, fault) == IF fault # 0 THEN Failure(fault) ELSE KvAnswer(st, c)

StoreApply(st, c, fault) ==
    IF IsWrite(c) /\ StoreAnswer(st, c, fault).ok
    THEN [st EXCEPT ![<<c.mount, c.path>>] = Append(@, [data |-> c.data])]
    ELSE st

\* The outcomes the store can choose for call c: a fault status, or (0) its
\* genuine answer; a write that would exceed MaxWrites is not accepted.
Outcomes(st, c) ==
    FaultCodes \cup
    (IF IsWrite(c) /\ KvAnswer(st, c).ok /\ TotalVersions(st, DOMAIN st) >= MaxWrites
     THEN {} ELSE {0})

----------------------------------------------------------------------------
Init ==
    /\ client = NoClient
    /\ store = [k \in StoreKeys |-> <<>>]
    /\ pc = "idle"
    /\ op = NoOp
    /\ call = NoCall
    /\ metadata = NoMetadata
    /\ result = NoResult
    /\ sent = <<>>
    /\ got = <<>>
    /\ lastSet = [a \in {NonePath} \cup {Some(p) : p \in SubPaths} |-> 0]

----------------------------------------------------------------------------
(* Construction: SecretClient::new, SecretClient::create, auth::login *)

\* Result<String>, with the file that was read to get it ("" when none was).
TokenOk(token, read) == [ok |-> TRUE, token |-> token, err |-> NoErr, file |-> read]
TokenErr(e, read) == [ok |-> FALSE, token |-> "", err |-> e, file |-> read]

\* What reading the token cost: the file read and its answer, if any.
FileReads(tok) == IF tok.file = "" THEN <<>> ELSE <<FileCall(tok.file)>>
FileAnswers(tok) ==
    IF tok.file = "" THEN <<>> ELSE <<Answer(tok.ok, 0, 0, 0, tok.token, <<>>)>>

\* fn read_token_from(path): both File::open and read_to_string go through `?`.
read_token_from(path, file) ==
    IF file = "ok" THEN TokenOk(FileContent(path), path)
    ELSE TokenErr(FromIoError, path)

\* Mutant: the mounted file wins over the environment variable.
service_account_jwt_file_first(env, file) ==
    IF file = "ok" \/ env # "valid" THEN read_token_from(SERVICE_TOKEN_PATH, file)
    ELSE TokenOk(EnvContent, "")

\* fn service_account_jwt(): std::env::var fails when the variable is absent
\* and when its value is not valid Unicode; any Err falls back to the file.
service_account_jwt(env, file) ==
    IF env = "valid" THEN TokenOk(EnvContent, "")
    ELSE read_token_from(SERVICE_TOKEN_PATH, file)

\* VaultClient::new(VaultClientSettingsBuilder::default().address(..).build()?)?:
\* the settings builder rejects an invalid address, and the HTTP client under
\* VaultClient may fail to build (rest_ok = FALSE).
vault_client(address, rest_ok) ==
    IF ~AddressValid(address) THEN [ok |-> FALSE, err |-> FromSettingsBuilderError]
    ELSE IF ~rest_ok THEN [ok |-> FALSE, err |-> FromClientError(0)]
    ELSE [ok |-> TRUE, err |-> NoErr]

\* fn create_internal
create_internal(address, mount, base_path, token, rest_ok) ==
    LET vc == vault_client(address, rest_ok) IN
    IF ~vc.ok THEN [ok |-> FALSE, client |-> NoClient, err |-> vc.err]
    ELSE [ok |-> TRUE,
          client |-> [built |-> TRUE, token |-> token, mount |-> mount,
                      base_path |-> base_path],
          err |-> NoErr]

BuildAnswer(c) == IF c.ok THEN Success(0, 0) ELSE Failure(0)

\* Mutant: the connection is built before the token is resolved.
new_connect_first(address, token, file, rest_ok) ==
    /\ pc = "idle" /\ ~client.built
    /\ op' = [NoOp EXCEPT !.name = "new", !.token = token, !.address = address,
                        !.file = file]
    /\ LET vc == vault_client(address, rest_ok)
           tok == IF token.some THEN TokenOk(token.v, "")
                  ELSE read_token_from(VAULT_TOKEN_PATH, file)
       IN IF ~vc.ok
          THEN /\ result' = Err(vc.err)
               /\ sent' = <<BuildCall(address, "")>> /\ got' = <<BuildAnswer(vc)>>
               /\ client' = client
          ELSE /\ result' = IF tok.ok THEN Ok(0, 0) ELSE Err(tok.err)
               /\ sent' = <<BuildCall(address, "")>> \o FileReads(tok)
               /\ got' = <<BuildAnswer(vc)>> \o FileAnswers(tok)
               /\ client' = IF tok.ok
                            THEN create_internal(address, Mount, BasePath,
                                                 tok.token, rest_ok).client
                            ELSE client
    /\ pc' = "done"
    /\ UNCHANGED <<store, call, metadata, lastSet>>

\* pub fn new(address, mount, base_path, token)
new(address, token, file, rest_ok) ==
    /\ pc = "idle" /\ ~client.built
    /\ op' = [NoOp EXCEPT !.name = "new", !.token = token, !.address = address,
                        !.file = file]
    /\ LET tok == IF token.some THEN TokenOk(token.v, "")
                  ELSE read_token_from(VAULT_TOKEN_PATH, file)
           reads == FileReads(tok)
           answers == FileAnswers(tok)
       IN IF ~tok.ok
          THEN /\ result' = Err(tok.err)
               /\ sent' = reads /\ got' = answers
               /\ client' = client
          ELSE LET c == create_internal(address, Mount, BasePath, tok.token, rest_ok)
               IN /\ result' = IF c.ok THEN Ok(0, 0) ELSE Err(c.err)
                  /\ sent' = Append(reads, BuildCall(address, tok.token))
                  /\ got' = Append(answers, BuildAnswer(c))
                  /\ client' = c.client
    /\ pc' = "done"
    /\ UNCHANGED <<store, call, metadata, lastSet>>

AuthMount == <<"k", "8", "s">>

LoginCall(auth_mount, jwt) ==
    [kind |-> "login", mount |-> auth_mount, path |-> <<>>, version |-> NoneNum,
     data |-> 0, cred |-> jwt, file |-> ""]

\* async fn login, up to the .await of vaultrs::auth::kubernetes::login: the
\* JWT is resolved, then a client without token is built, then the call goes out.
login(address, auth_mount, env, file, rest_ok) ==
    LET jwt == service_account_jwt(env, file)
        build == vault_client(address, rest_ok)
    IN IF ~jwt.ok
       THEN /\ pc' = "done" /\ result' = Err(jwt.err) /\ call' = NoCall
            /\ sent' = FileReads(jwt) /\ got' = FileAnswers(jwt)
       ELSE IF ~build.ok
       THEN /\ pc' = "done" /\ result' = Err(build.err) /\ call' = NoCall
            /\ sent' = Append(FileReads(jwt), BuildCall(address, ""))
            /\ got' = Append(FileAnswers(jwt), BuildAnswer(build))
       ELSE /\ pc' = "await_login" /\ result' = NoResult
            /\ call' = LoginCall(auth_mount, jwt.token)
            /\ sent' = FileReads(jwt) \o
                       <<BuildCall(address, ""), LoginCall(auth_mount, jwt.token)>>
            /\ got' = Append(FileAnswers(jwt), BuildAnswer(build))

\* pub async fn create(address, auth_mount, role, mount, base_path), first half
create(address, env, file, rest_ok) ==
    /\ pc = "idle" /\ ~client.built
    /\ op' = [NoOp EXCEPT !.name = "create", !.address = address, !.env = env,
                        !.file = file]
    /\ login(address, AuthMount, env, file, rest_ok)
    /\ UNCHANGED <<client, store, metadata, lastSet>>

\* create after `login(...).await?`: the auth backend accepted the JWT and
\* returned a session token, or failed with a status.
create_resume(auth, rest_ok) ==
    /\ pc = "await_login"
    /\ IF ~auth.ok
       THEN /\ result' = Err(FromClientError(auth.code))
            /\ client' = client
            /\ sent' = sent /\ got' = Append(got, auth)
       ELSE LET c == create_internal(op.address, Mount, BasePath, auth.token, rest_ok)
            IN /\ result' = IF c.ok THEN Ok(0, 0) ELSE Err(c.err)
               /\ client' = c.client
               /\ sent' = Append(sent, BuildCall(op.address, auth.token))
               /\ got' = got \o <<auth, BuildAnswer(c)>>
    /\ pc' = "done" /\ call' = NoCall
    /\ UNCHANGED <<store, op, metadata, lastSet>>

LoginAnswers ==
    {Answer(TRUE, 200, 0, 0, t, <<>>) : t \in SessionTokens}
    \cup {Failure(code) : code \in FaultCodes}

----------------------------------------------------------------------------
(* Read operations *)

OpRecord(name, path, data, version) ==
    [NoOp EXCEPT !.name = name, !.path = path, !.data = data, !.version = version]

\* Option::unwrap_or
unwrap_or(opt, default) == IF opt.some THEN opt.v ELSE default

\* Issue backing call c and suspend at `next`.
Issue(c, next) ==
    /\ call' = c
    /\ sent' = Append(sent, c)
    /\ pc' = next

\* Mutant: the version is ignored and the latest version is read.
read_secrets_internal_latest(path, version) ==
    Issue(KvCall("read", client.mount, path, NoneNum, 0), "await_read")

\* read_secrets_internal up to its .await: kv2::read_version or kv2::read.
read_secrets_internal(path, version) ==
    Issue(IF version.some
          THEN KvCall("read_version", client.mount, path, version, 0)
          ELSE KvCall("read", client.mount, path, NoneNum, 0),
          "await_read")

\* read_secrets_internal after its .await: 404 becomes PathNotFound, any other
\* error is converted by `?`.
read_secrets_internal_result(mount, path, secrets) ==
    IF ~secrets.ok /\ secrets.code = 404 THEN Err(PathNotFound(mount, path))
    ELSE IF ~secrets.ok THEN Err(FromClientError(secrets.code))
    ELSE Ok(secrets.data, 0)

read_secrets ==
    /\ pc = "idle" /\ client.built
    /\ op' = OpRecord("read_secrets", NonePath, 0, NoneNum)
    /\ read_secrets_internal(client.base_path, NoneNum)
    /\ UNCHANGED <<client, store, metadata, result, got, lastSet>>

\* Mutant: the sub-path is sent without the base path.
read_secrets_from_raw(path) ==
    /\ pc = "idle" /\ client.built
    /\ op' = OpRecord("read_secrets_from", Some(path), 0, NoneNum)
    /\ read_secrets_internal(path, NoneNum)
    /\ UNCHANGED <<client, store, metadata, result, got, lastSet>>

read_secrets_from(path) ==
    /\ pc = "idle" /\ client.built
    /\ op' = OpRecord("read_secrets_from", Some(path), 0, NoneNum)
    /\ read_secrets_internal(Join(client.base_path, path), NoneNum)
    /\ UNCHANGED <<client, store, metadata, result, got, lastSet>>

\* read_secrets_with_metadata up to the .await of kv2::read_metadata
read_secrets_with_metadata(path) ==
    /\ pc = "idle" /\ client.built
    /\ op' = OpRecord("read_secrets_with_metadata", path, 0, NoneNum)
    /\ Issue(KvCall("read_metadata", client.mount,
                    unwrap_or(path, client.base_path), NoneNum, 0),
             "await_metadata")
    /\ UNCHANGED <<client, store, metadata, result, got, lastSet>>

\* Mutant: a failed metadata read is swallowed and the latest data is read.
read_metadata_resume_continue(answer) ==
    /\ pc = "await_metadata"
    /\ got' = Append(got, answer)
    /\ metadata' = [current_version |-> answer.version]
    /\ read_secrets_internal(call.path,
                             IF answer.ok THEN Some(answer.version) ELSE NoneNum)
    /\ result' = result
    /\ UNCHANGED <<client, store, op, lastSet>>

\* read_secrets_with_metadata after kv2::read_metadata answered: `?`, then the
\* data read of the version the metadata names.
read_metadata_resume(answer) ==
    /\ pc = "await_metadata"
    /\ got' = Append(got, answer)
    /\ IF ~answer.ok
       THEN /\ result' = Err(FromClientError(answer.code))
            /\ pc' = "done" /\ call' = NoCall
            /\ UNCHANGED <<sent, metadata>>
       ELSE /\ metadata' = [current_version |-> answer.version]
            /\ read_secrets_internal(call.path, Some(answer.version))
            /\ result' = result
    /\ UNCHANGED <<client, store, op, lastSet>>

\* The read answered: read_secrets_internal returns, and read_secrets_with_metadata
\* bundles the data with the metadata it holds.
read_resume(answer) ==
    /\ pc = "await_read"
    /\ got' = Append(got, answer)
    /\ LET secrets == read_secrets_internal_result(client.mount, call.path, answer)
       IN result' = IF op.name = "read_secrets_with_metadata" /\ secrets.ok
                    THEN Ok(secrets.data, metadata.current_version)
                    ELSE secrets
    /\ pc' = "done" /\ call' = NoCall
    /\ UNCHANGED <<client, store, op, metadata, sent, lastSet>>

----------------------------------------------------------------------------
(* Write operations *)

WriteSecretOptions(data, path, version) ==
    [data |-> data, path |-> path, version |-> version]

\* set_secrets_internal up to the .await of kv2::set
set_secrets_internal(path, data) ==
    Issue(KvCall("set", client.mount, path, NoneNum, data), "await_set")

set_secrets(data) ==
    /\ pc = "idle" /\ client.built
    /\ op' = OpRecord("set_secrets", NonePath, data, NoneNum)
    /\ set_secrets_internal(client.base_path, data)
    /\ UNCHANGED <<client, store, metadata, result, got, lastSet>>

set_secrets_in(path, data) ==
    /\ pc = "idle" /\ client.built
    /\ op' = OpRecord("set_secrets_in", Some(path), data, NoneNum)
    /\ set_secrets_internal(Join(client.base_path, path), data)
    /\ UNCHANGED <<client, store, metadata, result, got, lastSet>>

\* Mutant: the version is dropped and the write is unconditional.
set_secrets_with_options_nocas(options) ==
    /\ pc = "idle" /\ client.built
    /\ op' = OpRecord("set_secrets_with_options", options.path, options.data,
                      options.version)
    /\ Issue(KvCall("set", client.mount, unwrap_or(options.path, client.base_path),
                    NoneNum, options.data),
             "await_set")
    /\ UNCHANGED <<client, store, metadata, result, got, lastSet>>

\* set_secrets_with_options up to its .await: kv2::set_with_options with
\* cas = version when a version is given, kv2::set otherwise.
set_secrets_with_options(options) ==
    /\ pc = "idle" /\ client.built
    /\ op' = OpRecord("set_secrets_with_options", options.path, options.data,
                      options.version)
    /\ LET path == unwrap_or(options.path, client.base_path)
       IN Issue(IF options.version.some
                THEN KvCall("set_with_options", client.mount, path,
                            Some(options.version.v), options.data)
                ELSE KvCall("set", client.mount, path, NoneNum, options.data),
                "await_set")
    /\ UNCHANGED <<client, store, metadata, result, got, lastSet>>

\* The sub-path arguments whose composed path is `path` under `mount`.
Addressing(mount, path) ==
    {a \in DOMAIN lastSet :
        /\ client.built /\ mount = client.mount
        /\ path = IF a.some THEN Join(client.base_path, a.v) ELSE client.base_path}

\* lastSet after a write of `data` reached the store at <<mount, path>>;
\* `arg` is the sub-path argument of the set_secrets/set_secrets_in that wrote
\* it, `none` for any other writer.
Written(mount, path, data, by) ==
    [a \in DOMAIN lastSet |->
        IF a \in by THEN data
        ELSE IF a \in Addressing(mount, path) THEN 0
        ELSE lastSet[a]]

\* Mutant: a failed write is sent once more before the error is returned.
set_resume_retry(fault) ==
    /\ pc = "await_set"
    /\ LET answer == StoreAnswer(store, call, fault)
       IN /\ got' = Append(got, answer)
          /\ store' = StoreApply(store, call, fault)
          /\ lastSet' = IF ~answer.ok THEN lastSet
                        ELSE Written(call.mount, call.path, call.data,
                                     IF op.name \in {"set_secrets", "set_secrets_in"}
                                     THEN {op.path} ELSE {})
          /\ IF ~answer.ok /\ Len(sent) < 2
             THEN Issue(call, "await_set") /\ result' = result
             ELSE /\ result' = IF answer.ok THEN Ok(0, answer.version)
                               ELSE Err(FromClientError(answer.code))
                  /\ pc' = "done" /\ call' = NoCall /\ sent' = sent
    /\ UNCHANGED <<client, op, metadata>>

\* The write answered: `?` converts an error, the version metadata is returned.
set_resume(fault) ==
    /\ pc = "await_set"
    /\ LET answer == StoreAnswer(store, call, fault)
       IN /\ got' = Append(got, answer)
          /\ store' = StoreApply(store, call, fault)
          /\ result' = IF answer.ok THEN Ok(0, answer.version)
                       ELSE Err(FromClientError(answer.code))
          /\ lastSet' = IF ~answer.ok THEN lastSet
                        ELSE Written(call.mount, call.path, call.data,
                                     IF op.name \in {"set_secrets", "set_secrets_in"}
                                     THEN {op.path} ELSE {})
    /\ pc' = "done" /\ call' = NoCall
    /\ UNCHANGED <<client, op, metadata, sent>>

----------------------------------------------------------------------------
(* The metadata POST (metadata.rs) *)

Urls == {"https://vault/v1/kv/metadata/a"}

PostCall(url, token) ==
    [kind |-> "post_metadata", mount |-> <<>>, path |-> <<>>, version |-> NoneNum,
     data |-> 0, cred |-> token, file |-> url]

\* serde_json::from_slice::<SecretVersionMetadata>
from_slice(content) ==
    IF content = JsonBody THEN Ok(0, 1) ELSE Err(FromJsonError)

\* handle_ok_response: response.bytes().await? then from_slice(..)?
handle_ok_response(response) ==
    IF ~response.body_ok THEN Err(FromReqwestError) ELSE from_slice(response.body)

\* handle_error: response.text().await? then Err(Api { status, message })
handle_error(status, response) ==
    IF ~response.body_ok THEN Err(FromReqwestError)
    ELSE Err(Api(status, response.body))

\* set_metadata_internal up to the .await of send()
set_metadata_internal(url) ==
    /\ pc = "idle" /\ client.built
    /\ op' = OpRecord("set_metadata", NonePath, 0, NoneNum)
    /\ Issue(PostCall(url, client.token), "await_post")
    /\ UNCHANGED <<client, store, metadata, result, got, lastSet>>

\* Mutant: every 2xx status is taken for success.
set_metadata_resume_2xx(response) ==
    /\ pc = "await_post"
    /\ got' = Append(got, response)
    /\ result' = IF ~response.ok THEN Err(FromReqwestError)
                 ELSE IF response.code \in 200..299 THEN handle_ok_response(response)
                 ELSE handle_error(response.code, response)
    /\ pc' = "done" /\ call' = NoCall
    /\ UNCHANGED <<client, store, op, metadata, sent, lastSet>>

\* set_metadata_internal after send().await: `?`, then the match on the status
set_metadata_resume(response) ==
    /\ pc = "await_post"
    /\ got' = Append(got, response)
    /\ result' = IF ~response.ok THEN Err(FromReqwestError)
                 ELSE IF response.code = 200 THEN handle_ok_response(response)
                 ELSE handle_error(response.code, response)
    /\ pc' = "done" /\ call' = NoCall
    /\ UNCHANGED <<client, store, op, metadata, sent, lastSet>>

\* What can come back from the POST: no response at all, or a status with a
\* body whose download may fail.
PostResponses ==
    {Failure(0)} \cup
    {[Answer(TRUE, status, 0, 0, "", body) EXCEPT !.body_ok = body_ok] :
        status \in PostStatuses, body \in Bodies, body_ok \in BOOLEAN}

----------------------------------------------------------------------------
(* The caller and the other writer *)

\* The caller takes the result; the invocation is over.
Return ==
    /\ pc = "done"
    /\ pc' = "idle" /\ op' = NoOp /\ result' = NoResult
    /\ sent' = <<>> /\ got' = <<>> /\ metadata' = NoMetadata
    /\ UNCHANGED <<client, store, call, lastSet>>

\* Another client of the same store stores a new version at `path`.
OtherWriter(path, data) ==
    /\ TotalVersions(store, DOMAIN store) < MaxWrites
    /\ store' = [store EXCEPT ![<<Mount, path>>] = Append(@, [data |-> data])]
    /\ lastSet' = Written(Mount, path, data, {})
    /\ UNCHANGED <<client, pc, op, call, metadata, result, sent, got>>

----------------------------------------------------------------------------
Tokens == {NoneStr} \cup {Some(t) : t \in ExplicitTokens}
OptPaths == {NonePath} \cup {Some(p) : p \in SubPaths}
OptVersions == {NoneNum} \cup {Some(v) : v \in CasVersions}

Next ==
    \/ \E address \in Addresses, token \in Tokens, file \in FileStates,
          rest_ok \in BOOLEAN : new(address, token, file, rest_ok)
    \/ \E address \in Addresses, env \in EnvStates, file \in FileStates,
          rest_ok \in BOOLEAN : create(address, env, file, rest_ok)
    \/ \E auth \in LoginAnswers, rest_ok \in BOOLEAN : create_resume(auth, rest_ok)
    \/ read_secrets
    \/ \E path \in SubPaths : read_secrets_from(path)
    \/ \E path \in OptPaths : read_secrets_with_metadata(path)
    \/ \E fault \in Outcomes(store, call) :
          read_metadata_resume(StoreAnswer(store, call, fault))
    \/ \E fault \in Outcomes(store, call) :
          read_resume(StoreAnswer(store, call, fault))
    \/ \E data \in Values : set_secrets(data)
    \/ \E path \in SubPaths, data \in Values : set_secrets_in(path, data)
    \/ \E data \in Values, path \in OptPaths, version \in OptVersions :
          set_secrets_with_options(WriteSecretOptions(data, path, version))
    \/ \E fault \in Outcomes(store, call) : set_resume(fault)
    \/ \E url \in Urls : set_metadata_internal(url)
    \/ \E response \in PostResponses : set_metadata_resume(response)
    \/ Return
    \/ \E path \in StorePaths, data \in Values : OtherWriter(path, data)

Spec == Init /\ [][Next]_vars

----------------------------------------------------------------------------
(* Properties *)

ReadOps == {"read_secrets", "read_secrets_from", "read_secrets_with_metadata"}
WriteOps == {"set_secrets", "set_secrets_in", "set_secrets_with_options"}
ClientOps == ReadOps \cup WriteOps \cup {"set_metadata"}
PathOps == {"read_secrets_from", "set_secrets_in", "read_secrets_with_metadata",
            "set_secrets_with_options"}

NetworkKinds == {"read", "read_version", "read_metadata", "set",
                 "set_with_options", "post_metadata", "login"}
KvKinds == NetworkKinds \ {"post_metadata", "login"}

\* The positions of the outbound network calls among the calls sent.
NetworkCalls == {i \in 1..Len(sent) : sent[i].kind \in NetworkKinds}

\* A backing call failed: no answer, an error status, or a body that broke off.
Failed(a) == ~a.ok \/ ~a.body_ok \/ a.code \notin {0, 200}

\* C1: when the store answers any backing call of a read operation with
\* HTTP 404, the operation returns PathNotFound, never the generic client error.
C1_NotFoundIsDomainError ==
    (pc = "done" /\ op.name \in ReadOps
        /\ \E i \in 1..Len(got) : ~got[i].ok /\ got[i].code = 404)
    => (~result.ok /\ result.err.variant = "PathNotFound")

\* C2: in every operation that accepts an optional sub-path, the path sent to
\* the store is base_path joined with the sub-path by one "/", and base_path
\* alone when no sub-path is given.
C2_PathIsBaseJoinedWithSubPath ==
    (op.name \in PathOps)
    => \A i \in 1..Len(sent) :
          sent[i].kind \in KvKinds
          => sent[i].path = IF op.path.some
                            THEN client.base_path \o <<"/">> \o op.path.v
                            ELSE client.base_path

\* C3: new without a token fails with the IO error when the token file is
\* missing or unreadable, before any connection is built, also when the
\* address is invalid; with an explicit token the file is never read and no
\* IO error occurs.
C3_MissingTokenFileIsIoError ==
    (op.name = "new" /\ pc = "done")
    => /\ (~op.token.some /\ op.file # "ok")
            => /\ result = Err(FromIoError)
               /\ \A i \in 1..Len(sent) : sent[i].kind # "build_client"
               /\ ~client.built
       /\ op.token.some
            => /\ \A i \in 1..Len(sent) : sent[i].kind # "read_file"
               /\ result.err.variant # "IO"
               /\ (client.built => client.token = op.token.v)

C3_Witness ==
    /\ op.name = "new" /\ pc = "done"
    /\ ~op.token.some /\ op.file = "missing" /\ ~AddressValid(op.address)
    /\ result.err.variant = "IO"

\* C4: after a successful set_secrets(v) or set_secrets_in(p, v) with no later
\* write to the same path, read_secrets() or read_secrets_from(p) on the same
\* client returns a value equal to v.
C4_RoundTrip ==
    (pc = "done" /\ op.name \in {"read_secrets", "read_secrets_from"}
        /\ lastSet[op.path] # 0 /\ result.ok)
    => result.data = lastSet[op.path]

C4_Witness ==
    /\ pc = "done" /\ op.name = "read_secrets_from"
    /\ lastSet[op.path] = 2 /\ result.ok /\ result.data = 2
    /\ Len(Versions(store, client.mount, client.base_path)) > 0

\* C5 as stated: each client operation issues exactly one outbound network
\* call per invocation and returns only after that call has completed.
C5_ExactlyOneCall ==
    (pc = "done" /\ op.name \in ClientOps)
    => /\ Cardinality(NetworkCalls) = 1
       /\ call = NoCall /\ Len(got) = Len(sent)

\* C5 amended: every client operation has at most one call outstanding, is
\* suspended exactly while one is, and returns only after its last call
\* completed; it issues exactly one outbound call, except
\* read_secrets_with_metadata, which issues the metadata read and, only when
\* that succeeded, the data read after it.
C5_OneCallAtATime ==
    (op.name \in ClientOps)
    => /\ Len(sent) = Cardinality(NetworkCalls)
       /\ IF pc = "done"
          THEN /\ call = NoCall /\ Len(got) = Len(sent)
               /\ Len(sent) = IF op.name = "read_secrets_with_metadata" /\ got[1].ok
                              THEN 2 ELSE 1
          ELSE /\ call = sent[Len(sent)] /\ Len(got) = Len(sent) - 1
               /\ \A i \in 1..Len(got) : got[i].ok

C5_Witness ==
    /\ pc = "done" /\ op.name = "read_secrets_with_metadata"
    /\ Len(sent) = 2 /\ sent[1].kind = "read_metadata" /\ sent[2].kind = "read_version"
    /\ result.ok

\* The typed error that failure `a` of call `c` surfaces as.
Surfaces(c, a, e) ==
    CASE c.kind = "read_file" -> e = FromIoError
      [] c.kind = "build_client" -> e \in {FromSettingsBuilderError, FromClientError(0)}
      [] c.kind = "post_metadata" ->
            e \in {FromReqwestError, FromJsonError, Api(a.code, a.body)}
      [] OTHER -> \/ e = FromClientError(a.code)
                  \/ a.code = 404 /\ e.variant = "PathNotFound"

\* C6: no failure is retried: once a backing call of an invocation fails, the
\* invocation issues no further call and returns that failure as a typed
\* error; read_secrets_with_metadata issues no data read after a failed
\* metadata read, and create builds no client after a failed login.
C6_NoRetry ==
    \A i \in 1..Len(got) :
        Failed(got[i])
        => /\ i = Len(got) /\ i = Len(sent)
           /\ pc = "done" /\ call = NoCall
           /\ ~result.ok /\ Surfaces(sent[i], got[i], result.err)
           /\ (op.name \in {"new", "create"} => ~client.built)

C6_Witness ==
    /\ pc = "done" /\ op.name = "read_secrets_with_metadata"
    /\ Len(sent) = 1 /\ Failed(got[1]) /\ got[1].code = 500
    /\ result = Err(FromClientError(500))

\* C7: set_secrets_with_options writes under check-and-set exactly when a
\* version is given, with cas = version, and unconditionally otherwise; a
\* check-and-set write whose version is not the store's current version
\* leaves the store unchanged and returns an error; a successful write returns
\* the version the store now holds.
C7_CheckAndSet ==
    [][ /\ (pc' = "await_set" /\ op'.name = "set_secrets_with_options")
            => IF op'.version.some
               THEN /\ call'.kind = "set_with_options"
                    /\ call'.version = Some(op'.version.v)
               ELSE call'.kind = "set"
        /\ (pc = "await_set" /\ pc' = "done" /\ op.name = "set_secrets_with_options")
            => LET before == Versions(store, call.mount, call.path)
                   after == Versions(store', call.mount, call.path)
               IN /\ (op.version.some /\ op.version.v # Len(before))
                        => (store' = store /\ ~result'.ok)
                  /\ result'.ok
                        => /\ after = Append(before, [data |-> op.data])
                           /\ result'.version = Len(after)
                  /\ ~result'.ok => store' = store
      ]_vars

C7_Witness ==
    /\ pc = "done" /\ op.name = "set_secrets_with_options"
    /\ op.version = Some(0)
    /\ Len(Versions(store, client.mount, sent[1].path)) = 1
    /\ result = Err(FromClientError(400))

\* The calls of kind `kind` among the calls sent.
Sent(kind) == {i \in 1..Len(sent) : sent[i].kind = kind}

\* create logs in before it constructs the client, and the client carries the
\* session token the login returned.
LoginFeedsClient ==
    /\ pc = "await_login" => ~client.built
    /\ (pc = "done" /\ client.built)
        => \E i \in Sent("login") :
              /\ got[i].ok /\ client.token = got[i].token
              /\ \A j \in Sent("build_client") :
                    sent[j].cred # "" => (j > i /\ sent[j].cred = got[i].token)

\* C8 as stated: the JWT comes from K8S_JWT whenever the variable is set, and
\* the mounted token file is read only when the variable is absent (IO error
\* if it is unreadable); create logs in with that JWT before it constructs the
\* client, which carries the session token the login returned.
C8_EnvWheneverSet ==
    (op.name = "create")
    => /\ op.env # "absent"
            => /\ Sent("read_file") = {}
               /\ \A i \in Sent("login") : sent[i].cred = EnvContent
       /\ op.env = "absent"
            => /\ sent[1] = FileCall(SERVICE_TOKEN_PATH)
               /\ op.file # "ok" => (pc = "done" /\ result = Err(FromIoError))
               /\ \A i \in Sent("login") :
                     sent[i].cred = FileContent(SERVICE_TOKEN_PATH)
       /\ LoginFeedsClient

\* C8 amended: the JWT comes from K8S_JWT whenever the variable holds valid
\* Unicode; when it is absent or not valid Unicode the mounted token file is
\* read (IO error if it is unreadable); the rest as stated.
C8_EnvWhenValidUnicode ==
    (op.name = "create")
    => /\ op.env = "valid"
            => /\ Sent("read_file") = {}
               /\ \A i \in Sent("login") : sent[i].cred = EnvContent
       /\ op.env # "valid"
            => /\ sent[1] = FileCall(SERVICE_TOKEN_PATH)
               /\ op.file # "ok"
                    => (pc = "done" /\ result = Err(FromIoError) /\ Len(sent) = 1)
               /\ \A i \in Sent("login") :
                     sent[i].cred = FileContent(SERVICE_TOKEN_PATH)
       /\ LoginFeedsClient

C8_Witness ==
    /\ op.name = "create" /\ pc = "done" /\ op.env = "valid" /\ op.file = "ok"
    /\ client.built /\ client.token = "s2"
    /\ \E i \in Sent("login") : sent[i].cred = EnvContent /\ got[i].token = "s2"

\* C9: the data read_secrets_with_metadata returns is the value of the version
\* its returned metadata names as current_version, also when another writer
\* stored a newer version between the metadata read and the data read.
C9_ConsistentBundle ==
    (pc = "done" /\ op.name = "read_secrets_with_metadata" /\ result.ok)
    => LET vs == Versions(store, sent[1].mount, sent[1].path)
       IN /\ result.version = got[1].version
          /\ result.version \in 1..Len(vs)
          /\ result.data = vs[result.version].data

C9_Witness ==
    /\ pc = "done" /\ op.name = "read_secrets_with_metadata" /\ result.ok
    /\ LET vs == Versions(store, sent[1].mount, sent[1].path)
       IN /\ result.version < Len(vs)
          /\ result.data # vs[Len(vs)].data

\* C10 as stated: the metadata POST succeeds only for status 200 with a body
\* that parses as JSON; every other status yields the HTTP-API error with that
\* status and the body as message; a 200 whose body does not parse yields a
\* JSON error.
C10_ApiErrorForEveryOtherStatus ==
    (pc = "done" /\ op.name = "set_metadata" /\ got[1].ok)
    => /\ result.ok => (got[1].code = 200 /\ got[1].body = JsonBody)
       /\ got[1].code # 200 => result = Err(Api(got[1].code, got[1].body))
       /\ (got[1].code = 200 /\ got[1].body_ok /\ got[1].body # JsonBody)
            => result = Err(FromJsonError)

\* C10 amended: as stated for every response whose body is read to the end; a
\* response whose body cannot be read yields the transport error, whatever its
\* status.
C10_ApiErrorWhenBodyIsRead ==
    (pc = "done" /\ op.name = "set_metadata" /\ got[1].ok)
    => /\ result.ok => (got[1].code = 200 /\ got[1].body = JsonBody /\ got[1].body_ok)
       /\ (got[1].code # 200 /\ got[1].body_ok)
            => result = Err(Api(got[1].code, got[1].body))
       /\ (got[1].code = 200 /\ got[1].body_ok /\ got[1].body # JsonBody)
            => result = Err(FromJsonError)
       /\ (got[1].code = 200 /\ got[1].body_ok /\ got[1].body = JsonBody) => result.ok
       /\ ~got[1].body_ok => result = Err(FromReqwestError)

C10_Witness ==
    /\ pc = "done" /\ op.name = "set_metadata"
    /\ got[1].ok /\ got[1].code = 204 /\ got[1].body_ok
    /\ result = Err(Api(204, EmptyBody))

====
